---- MODULE Spec2Model ----
(***************************************************************************)
(* Dispatch matching (internalGetMatching and its search helpers) and the   *)
(* payment settlement client (requestPaymentGatewayPostPayment).            *)
(*                                                                          *)
(* The matching handlers run as concurrent HTTP requests against one        *)
(* transactional store.  Every action below is one SQL statement of the     *)
(* handler together with the Go code around it, so that concurrent          *)
(* invocations interleave exactly at statement boundaries.                  *)
(*                                                                          *)
(* Coordinates are kilometre offsets in a local tangent plane.  The         *)
(* great-circle distance of the source is monotone in the planar distance   *)
(* at these ranges; calculateDistance is its square, which ranks points     *)
(* alike.                                                                    *)
(***************************************************************************)
EXTENDS Integers, Sequences, FiniteSets, TLC

\* ---------------------------------------------------------------- bounds
NumProcs == 2
NumRides == 2
NumChairs == 2
\* Most chair_locations rows of one chair
MaxSamples == 2

Procs == 1..NumProcs
Rides == 1..NumRides
Chairs == 1..NumChairs

\* chair_id IS NULL / a nil pointer
NULL == 0

\* ------------------------------------------------------- program constants
maxDistance == 150
stepDistance == 25
StatusOK == 200
StatusNoContent == 204
StatusInternalServerError == 500

Point(lat, lng) == [lat |-> lat, lng |-> lng]

\* Rows a ride may have been created with: its pickup coordinates and its
\* created_at (ties are possible).
RideConfigs ==
    << [pickup |-> Point(0, 0),   createdAt |-> 2],
       [pickup |-> Point(170, 0), createdAt |-> 1] >>

\* Rows a chair may have: its is_active flag and its chair_locations history
\* (oldest sample first).
ChairConfigs ==
    << [active |-> TRUE,  samples |-> <<Point(10, 5)>>],
       [active |-> TRUE,  samples |-> <<Point(24, 24)>>],
       [active |-> TRUE,  samples |-> <<Point(30, 0)>>],
       [active |-> TRUE,  samples |-> <<Point(-150, 150)>>],
       [active |-> FALSE, samples |-> <<Point(10, 5)>>],
       [active |-> TRUE,  samples |-> <<Point(10, 5), Point(0, 160)>>] >>

\* Identifiers are opaque and no statement orders rows by them, so the rows
\* are listed up to renaming: by non-decreasing index of their configuration.
Sorted(k, S) == \A a, b \in S : a < b => k[a] <= k[b]

\* ------------------------------------------------------------- variables
VARIABLES
    \* rides table (committed)
    rideChair,        \* rides.chair_id, NULL when unmatched
    pickup,           \* rides.pickup_latitude / pickup_longitude
    createdAt,        \* rides.created_at
    \* chairs table (committed)
    isActive,         \* chairs.is_active
    inUse,            \* chairs.is_in_use
    chairLocations,   \* chair_locations rows of each chair, oldest first
    \* store
    rideLock,         \* exclusive row lock on a rides row: its holder or NULL
    chairLock,        \* exclusive row lock on a chairs row: its holder or NULL
    \* one internalGetMatching invocation per process
    pc,               \* position in the handler
    ride,             \* ride.ID scanned by the locking SELECT, or NULL
    chair,            \* *ChairWithDistance returned by the search, or NoChair
    currentDistance,  \* graduallyExpandSearch's currentDistance
    view,             \* read view of chairs.is_in_use, NoView before the first read
    writes,           \* uncommitted writes of the open transaction
    response,         \* status of the response written last, 0 before the first
    rolledBack        \* writes undone by the rollback of the invocation that ended last

matchVars == <<rideChair, pickup, createdAt, isActive, inUse, chairLocations,
               rideLock, chairLock, pc, ride, chair,
               currentDistance, view, writes, response, rolledBack>>

\* The settlement call (requestPaymentGatewayPostPayment)
VARIABLES
    payPc,      \* "post", "verify", "backoff", "done" ("off": no call)
    retry,      \* the retry counter
    posts,      \* POST /payments requests handed to the client
    gets,       \* GET /payments requests handed to the client
    sleeps,     \* backoff sleeps taken
    lastStatus, \* res.StatusCode of the latest POST, 0 when client.Do failed
    attemptErr, \* the error of the latest attempt, "nil" when it had none
    result,     \* what the call returned: NotReturned while it runs
    gwRecords,  \* settlement records the gateway holds
    newRecords, \* those of them that the POSTs of this call created
    rideCount,  \* len(rides) of retrieveRidesOrderByCreatedAtAsc
    ctxDone     \* the caller's context is cancelled or timed out

payVars == <<payPc, retry, posts, gets, sleeps, lastStatus, attemptErr, result,
             gwRecords, newRecords, rideCount, ctxDone>>

\* Values of result: the call has not returned, it returned nil, or (in
\* afterError) it returned the error that wraps the last attempt's.
NotReturned == <<"running">>
ReturnedNil == <<"nil">>

NoChair == [ID |-> NULL]
NoView == <<>>
NoWrites == [rides |-> {}, chairs |-> {}]

\* ------------------------------------------------------- pure functions

\* calculateDistance: the squared planar distance (see the header).
calculateDistance(lat1, lng1, lat2, lng2) ==
    (lat2 - lat1) * (lat2 - lat1) + (lng2 - lng1) * (lng2 - lng1)

\* calculateBoundingBox: the square of half-width distance around the point.
calculateBoundingBox(lat, lng, distance) ==
    [minLat |-> lat - distance, maxLat |-> lat + distance,
     minLng |-> lng - distance, maxLng |-> lng + distance]

\* The WHERE clause on a chair_locations row: BETWEEN is inclusive.
InBox(pt, box) ==
    /\ box.minLat <= pt.lat /\ pt.lat <= box.maxLat
    /\ box.minLng <= pt.lng /\ pt.lng <= box.maxLng

\* VARIANT of queryChairs: the WHERE clause without chairs.is_active = TRUE.
queryChairsAnyActivity(v, box) ==
    { [ID |-> c, Latitude |-> chairLocations[c][i].lat,
                 Longitude |-> chairLocations[c][i].lng] :
        <<c, i>> \in { ci \in Chairs \X (1..MaxSamples) :
                         /\ ci[2] \in DOMAIN chairLocations[ci[1]]
                         /\ ~v[ci[1]]
                         /\ InBox(chairLocations[ci[1]][ci[2]], box) } }

\* Rows of chairs INNER JOIN chair_locations that pass the WHERE clause, as
\* read through the is_in_use values v.
queryChairs(v, box) ==
    { [ID |-> c, Latitude |-> chairLocations[c][i].lat,
                 Longitude |-> chairLocations[c][i].lng] :
        <<c, i>> \in { ci \in Chairs \X (1..MaxSamples) :
                         /\ ci[2] \in DOMAIN chairLocations[ci[1]]
                         /\ isActive[ci[1]]
                         /\ ~v[ci[1]]
                         /\ InBox(chairLocations[ci[1]][ci[2]], box) } }

WithDistance(row, p) ==
    [ID |-> row.ID, Latitude |-> row.Latitude, Longitude |-> row.Longitude,
     Distance |-> calculateDistance(p.lat, p.lng, row.Latitude, row.Longitude)]

\* VARIANT of nearestOf: the comparison reversed (distance > nearest.Distance).
farthestOf(cands) ==
    { n \in cands : \A o \in cands : n.Distance >= o.Distance }

\* The loop of findNearestChair keeps a row only when it is strictly nearer
\* than the one kept so far; rows arrive in no particular order, so any row
\* of minimal distance may be the one returned.  {} is sql.ErrNoRows.
nearestOf(cands) ==
    { n \in cands : \A o \in cands : n.Distance <= o.Distance }

findNearestChair(v, p, box) ==
    nearestOf({ WithDistance(row, p) : row \in queryChairs(v, box) })

\* VARIANT of loopCond: the maximum itself is not searched.
loopCondStrict(cur) == cur < maxDistance

\* The loop condition of graduallyExpandSearch.
loopCond(cur) == cur <= maxDistance

\* ------------------------------------------------ the locking ride SELECT

\* VARIANT of Unmatched: the WHERE chair_id IS NULL is missing.
AllRides == Rides

\* WHERE chair_id IS NULL, on the latest committed rows.
Unmatched == { r \in Rides : rideChair[r] = NULL }

LockedByOther(p, r) == rideLock[r] \notin {NULL, p}

\* VARIANT of oldestOf: ORDER BY created_at DESC.
newestOf(rows) ==
    { r \in rows : \A o \in rows : createdAt[r] >= createdAt[o] }

\* ORDER BY created_at LIMIT 1 over the rows it is given.
oldestOf(rows) ==
    { r \in rows : \A o \in rows : createdAt[r] <= createdAt[o] }

\* VARIANT of selectRideForUpdate: FOR UPDATE SKIP LOCKED, the oldest row
\* that no other transaction has locked.
selectRideSkipLocked(p) ==
    [ blocked |-> FALSE,
      rows    |-> oldestOf({ r \in Unmatched : ~LockedByOther(p, r) }),
      locks   |-> TRUE ]

\* VARIANT of selectRideForUpdate: a plain SELECT, which takes no lock.
selectRideNoLock(p) ==
    [ blocked |-> FALSE,
      rows    |-> oldestOf(Unmatched),
      locks   |-> FALSE ]

\* SELECT ... WHERE chair_id IS NULL ORDER BY created_at LIMIT 1 FOR UPDATE.
\* A locking read sees the latest committed rows, waits for the lock of a row
\* it has to return, and keeps that lock until the transaction ends.
selectRideForUpdate(p) ==
    [ blocked |-> \E r \in oldestOf(Unmatched) : LockedByOther(p, r),
      rows    |-> oldestOf(Unmatched),
      locks   |-> TRUE ]

\* ------------------------------------------------------------------ Init
\* Every ride unmatched, every chair free, no invocation running; kr and kc
\* give each ride and chair its configuration.
MatchInitWith(kr, kc) ==
    /\ rideChair = [r \in Rides |-> NULL]
    /\ pickup = [r \in Rides |-> RideConfigs[kr[r]].pickup]
    /\ createdAt = [r \in Rides |-> RideConfigs[kr[r]].createdAt]
    /\ isActive = [c \in Chairs |-> ChairConfigs[kc[c]].active]
    /\ chairLocations = [c \in Chairs |-> ChairConfigs[kc[c]].samples]
    /\ inUse = [c \in Chairs |-> FALSE]
    /\ rideLock = [r \in Rides |-> NULL]
    /\ chairLock = [c \in Chairs |-> NULL]
    /\ pc = [p \in Procs |-> "idle"]
    /\ ride = [p \in Procs |-> NULL]
    /\ chair = [p \in Procs |-> NoChair]
    /\ currentDistance = [p \in Procs |-> 0]
    /\ view = [p \in Procs |-> NoView]
    /\ writes = [p \in Procs |-> NoWrites]
    /\ response = 0
    /\ rolledBack = NoWrites

MatchInit ==
    \E kr \in [Rides -> DOMAIN RideConfigs], kc \in [Chairs -> DOMAIN ChairConfigs] :
        /\ Sorted(kr, Rides)
        /\ Sorted(kc, Chairs)
        /\ MatchInitWith(kr, kc)

\* The matching engine at rest, for the settlement client's specification.
MatchOff == MatchInitWith([r \in Rides |-> 1], [c \in Chairs |-> 1])

\* --------------------------------------------------------------- actions

\* The end of an invocation: the response is written and the transaction is
\* over (committed, or rolled back by the deferred tx.Rollback), so its
\* locks are released and its uncommitted writes are gone.
EndTx(p, status) ==
    /\ pc' = [pc EXCEPT ![p] = "idle"]
    /\ ride' = [ride EXCEPT ![p] = NULL]
    /\ chair' = [chair EXCEPT ![p] = NoChair]
    /\ currentDistance' = [currentDistance EXCEPT ![p] = 0]
    /\ view' = [view EXCEPT ![p] = NoView]
    /\ writes' = [writes EXCEPT ![p] = NoWrites]
    /\ rideLock' = [r \in Rides |-> IF rideLock[r] = p THEN NULL ELSE rideLock[r]]
    /\ chairLock' = [c \in Chairs |-> IF chairLock[c] = p THEN NULL ELSE chairLock[c]]
    /\ response' = status
    /\ rolledBack' = IF status = StatusNoContent THEN NoWrites ELSE writes[p]

\* db.BeginTx succeeds.
BeginTx(p) ==
    /\ pc[p] = "idle"
    /\ pc' = [pc EXCEPT ![p] = "select"]
    /\ UNCHANGED <<rideChair, pickup, createdAt, isActive, inUse, chairLocations,
                   rideLock, chairLock, ride, chair,
                   currentDistance, view, writes, response, rolledBack>>
    /\ UNCHANGED payVars

\* The locking SELECT of the oldest unmatched ride.
SelectRide(p) ==
    /\ pc[p] = "select"
    /\ LET sel == selectRideForUpdate(p) IN
         /\ ~sel.blocked
         /\ IF sel.rows = {}
              THEN \* sql.ErrNoRows: 204, nothing to match
                   EndTx(p, StatusNoContent)
              ELSE \E r \in sel.rows :
                     /\ ride' = [ride EXCEPT ![p] = r]
                     /\ rideLock' = IF sel.locks
                                      THEN [rideLock EXCEPT ![r] = p]
                                      ELSE rideLock
                     /\ currentDistance' = [currentDistance EXCEPT ![p] = stepDistance]
                     /\ pc' = [pc EXCEPT ![p] = "search"]
                     /\ UNCHANGED <<chairLock, chair, view, writes, response,
                                    rolledBack>>
    /\ UNCHANGED <<rideChair, pickup, createdAt, isActive, inUse, chairLocations>>
    /\ UNCHANGED payVars

\* The is_in_use values a non-locking read of p's transaction may see: the
\* latest committed ones (the first read of the transaction, and every read
\* under READ COMMITTED) or those of the transaction's earlier read
\* (REPEATABLE READ).  The isolation level is the connection's, not the code's.
readViews(p) == {inUse} \cup (IF view[p] = NoView THEN {} ELSE {view[p]})

\* One iteration of graduallyExpandSearch: the bounding box of the current
\* distance and findNearestChair's query in it.
SearchStep(p) ==
    /\ pc[p] = "search"
    /\ \E v \in readViews(p) :
       LET pt  == pickup[ride[p]]
           box == calculateBoundingBox(pt.lat, pt.lng, currentDistance[p])
           res == findNearestChair(v, pt, box)
       IN /\ view' = [view EXCEPT ![p] = v]
          /\ IF res # {}
               THEN /\ \E n \in res : chair' = [chair EXCEPT ![p] = n]
                    /\ pc' = [pc EXCEPT ![p] = "updateRide"]
                    /\ UNCHANGED currentDistance
               ELSE /\ currentDistance' =
                          [currentDistance EXCEPT ![p] = @ + stepDistance]
                    /\ pc' = [pc EXCEPT ![p] = "sleep"]
                    /\ UNCHANGED chair
    /\ UNCHANGED <<rideChair, pickup, createdAt, isActive, inUse, chairLocations,
                   rideLock, chairLock, ride, writes, response, rolledBack>>
    /\ UNCHANGED payVars

\* time.Sleep returns and the loop condition is evaluated again; when it
\* fails the search returns (nil, nil) and the handler answers 204.
Wake(p) ==
    /\ pc[p] = "sleep"
    /\ IF loopCond(currentDistance[p])
         THEN /\ pc' = [pc EXCEPT ![p] = "search"]
              /\ UNCHANGED <<rideLock, chairLock, ride, chair, currentDistance,
                             view, writes, response, rolledBack>>
         ELSE EndTx(p, StatusNoContent)
    /\ UNCHANGED <<rideChair, pickup, createdAt, isActive, inUse, chairLocations>>
    /\ UNCHANGED payVars

\* UPDATE rides SET chair_id = ? WHERE id = ?
UpdateRide(p) ==
    /\ pc[p] = "updateRide"
    /\ ~LockedByOther(p, ride[p])
    /\ rideLock' = [rideLock EXCEPT ![ride[p]] = p]
    /\ writes' = [writes EXCEPT ![p].rides = @ \cup {<<ride[p], chair[p].ID>>}]
    /\ pc' = [pc EXCEPT ![p] = "updateChair"]
    /\ UNCHANGED <<rideChair, pickup, createdAt, isActive, inUse, chairLocations,
                   chairLock, ride, chair, currentDistance, view,
                   response, rolledBack>>
    /\ UNCHANGED payVars

\* VARIANT of updatedChairs: the statement is bound to a key that is no
\* chair's id and updates no row.
updatedChairsNone(p) == {}

\* The chairs rows that WHERE id = ? selects, bound to chair.ID.
updatedChairs(p) == {chair[p].ID}

\* UPDATE chairs SET is_in_use = TRUE WHERE id = ?
UpdateChair(p) ==
    /\ pc[p] = "updateChair"
    /\ \A c \in updatedChairs(p) : chairLock[c] \in {NULL, p}
    /\ chairLock' = [c \in Chairs |-> IF c \in updatedChairs(p) THEN p
                                                              ELSE chairLock[c]]
    /\ writes' = [writes EXCEPT ![p].chairs = @ \cup updatedChairs(p)]
    /\ pc' = [pc EXCEPT ![p] = "commit"]
    /\ UNCHANGED <<rideChair, pickup, createdAt, isActive, inUse, chairLocations,
                   rideLock, ride, chair, currentDistance, view,
                   response, rolledBack>>
    /\ UNCHANGED payVars

\* The writes a commit of p's transaction publishes.
committedRides(p) ==
    [r \in Rides |-> IF \E w \in writes[p].rides : w[1] = r
                       THEN (CHOOSE w \in writes[p].rides : w[1] = r)[2]
                       ELSE rideChair[r]]

committedChairs(p) ==
    [c \in Chairs |-> IF c \in writes[p].chairs THEN TRUE ELSE inUse[c]]

\* tx.Commit succeeds.
Commit(p) ==
    /\ pc[p] = "commit"
    /\ rideChair' = committedRides(p)
    /\ inUse' = committedChairs(p)
    /\ EndTx(p, StatusNoContent)
    /\ UNCHANGED <<pickup, createdAt, isActive, chairLocations>>
    /\ UNCHANGED payVars

\* VARIANT of afterRollback: the deferred call is tx.Commit.
afterDeferredCommit(p) ==
    [rides |-> committedRides(p), chairs |-> committedChairs(p)]

\* The tables after the deferred tx.Rollback of a transaction that did not
\* commit: none of its writes.
afterRollback(p) == [rides |-> rideChair, chairs |-> inUse]

\* A storage error (or the request context ending) at the statement the
\* process is about to run: writeError, and the deferred rollback.
StorageError(p) ==
    /\ pc[p] \in {"idle", "select", "search", "updateRide", "updateChair", "commit"}
    /\ EndTx(p, StatusInternalServerError)
    /\ rideChair' = afterRollback(p).rides
    /\ inUse' = afterRollback(p).chairs
    /\ UNCHANGED <<pickup, createdAt, isActive, chairLocations>>
    /\ UNCHANGED payVars

\* internalGetMatching, statement by statement, without storage errors.
internalGetMatching(p) ==
    \/ BeginTx(p)
    \/ SelectRide(p)
    \/ SearchStep(p)
    \/ Wake(p)
    \/ UpdateRide(p)
    \/ UpdateChair(p)
    \/ Commit(p)

\* ====================================================================
\* Payment settlement client
\* ====================================================================

\* Largest number of rides in the caller's listing, and of settlement records
\* the gateway holds before the call.
MaxLedger == 2

maxRetry == 5

PayInit ==
    /\ payPc = "post"
    /\ retry = 0
    /\ posts = 0
    /\ gets = 0
    /\ sleeps = 0
    /\ lastStatus = 0
    /\ attemptErr = "nil"
    /\ result = NotReturned
    /\ gwRecords \in 0..MaxLedger
    /\ newRecords = 0
    /\ rideCount \in 0..MaxLedger
    /\ ctxDone = FALSE

\* No settlement call, for the matching engine's specification.
PayOff ==
    /\ payPc = "off"
    /\ retry = 0
    /\ posts = 0
    /\ gets = 0
    /\ sleeps = 0
    /\ lastStatus = 0
    /\ attemptErr = "nil"
    /\ result = NotReturned
    /\ gwRecords = 0
    /\ newRecords = 0
    /\ rideCount = 0
    /\ ctxDone = FALSE

\* What the gateway may do with a POST /payments: answer with a status, having
\* created the settlement record or not, or fail the exchange (the request
\* or its response is lost).  A no-content answer means the record exists.
PostReplies ==
    {[status |-> StatusNoContent, created |-> TRUE]}
    \cup [status : {StatusOK, StatusInternalServerError}, created : BOOLEAN]
    \cup [status : {0}, created : BOOLEAN]

\* VARIANT of needsVerify: the status is compared with http.StatusOK.
needsVerifyNotOK(status) == status # StatusOK

\* res.StatusCode != http.StatusNoContent sends the attempt to verifyPayments.
needsVerify(status) == status # StatusNoContent

\* VARIANT of afterError: the budget compared with <= (one round too many).
afterErrorInclusive(err) ==
    IF retry <= maxRetry
      THEN /\ retry' = retry + 1
           /\ payPc' = "backoff"
           /\ result' = result
      ELSE /\ retry' = retry
           /\ payPc' = "done"
           /\ result' = <<"maximum retry limit reached", err>>

\* The if after the attempt: another round while retry < maxRetry, else the
\* terminal error that wraps err.
afterError(err) ==
    IF retry < maxRetry
      THEN /\ retry' = retry + 1
           /\ payPc' = "backoff"
           /\ result' = result
      ELSE /\ retry' = retry
           /\ payPc' = "done"
           /\ result' = <<"maximum retry limit reached", err>>

\* VARIANT of returnNil: the break is missing and the loop runs again.
returnNilContinue ==
    /\ payPc' = "post"
    /\ result' = result
    /\ retry' = retry

\* The attempt ended without error: break, return nil.
returnNil ==
    /\ payPc' = "done"
    /\ result' = ReturnedNil
    /\ retry' = retry

\* One POST /payments through client.Do.  With the context done the client
\* returns its error without an exchange.
PostPayment ==
    /\ payPc = "post"
    /\ posts' = posts + 1
    /\ IF ctxDone
         THEN /\ lastStatus' = 0
              /\ attemptErr' = "context"
              /\ afterError("context")
              /\ UNCHANGED <<gwRecords, newRecords>>
         ELSE \E rep \in PostReplies :
                /\ lastStatus' = rep.status
                /\ gwRecords' = IF rep.created THEN gwRecords + 1 ELSE gwRecords
                /\ newRecords' = IF rep.created THEN newRecords + 1 ELSE newRecords
                /\ IF rep.status = 0
                     THEN /\ attemptErr' = "transport"
                          /\ afterError("transport")
                     ELSE IF needsVerify(rep.status)
                            THEN /\ payPc' = "verify"
                                 /\ attemptErr' = "nil"
                                 /\ UNCHANGED <<retry, result>>
                            ELSE /\ attemptErr' = "nil"
                                 /\ returnNil
    /\ UNCHANGED <<gets, sleeps, rideCount, ctxDone>>
    /\ UNCHANGED matchVars

\* VARIANT of verifyResult: the comparison of the lengths reversed (==).
verifyResultEqual(status, decodable, n, ridesOk) ==
    IF status = 0 THEN "transport"
    ELSE IF status # StatusOK THEN "status"
    ELSE IF ~decodable THEN "decode"
    ELSE IF ~ridesOk THEN "rides"
    ELSE IF rideCount = n THEN "mismatch"
    ELSE "nil"

\* What verifyPayments returns after a GET that the gateway answered with
\* the status and, when decodable, its list of n records; ridesOk is whether
\* retrieveRidesOrderByCreatedAtAsc returned its listing.
verifyResult(status, decodable, n, ridesOk) ==
    IF status = 0 THEN "transport"
    ELSE IF status # StatusOK THEN "status"
    ELSE IF ~decodable THEN "decode"
    ELSE IF ~ridesOk THEN "rides"
    ELSE IF rideCount # n THEN "mismatch"
    ELSE "nil"

\* verifyPayments: one GET /payments and the comparison of the counts.
verifyPayments ==
    /\ payPc = "verify"
    /\ gets' = gets + 1
    /\ \E err \in IF ctxDone
                    THEN {"context"}
                    ELSE { verifyResult(st, dec, gwRecords, ok) :
                             st \in {0, StatusOK, StatusInternalServerError},
                             dec \in BOOLEAN, ok \in BOOLEAN } :
          /\ attemptErr' = err
          /\ IF err = "nil" THEN returnNil ELSE afterError(err)
    /\ UNCHANGED <<posts, sleeps, lastStatus, gwRecords, newRecords, rideCount,
                   ctxDone>>
    /\ UNCHANGED matchVars

\* time.Sleep(backoff + jitter), then continue.
Backoff ==
    /\ payPc = "backoff"
    /\ sleeps' = sleeps + 1
    /\ payPc' = "post"
    /\ UNCHANGED <<retry, posts, gets, lastStatus, attemptErr, result,
                   gwRecords, newRecords, rideCount, ctxDone>>
    /\ UNCHANGED matchVars

\* The caller cancels the context, or its deadline passes.
CtxCancel ==
    /\ payPc \in {"post", "verify", "backoff"}
    /\ ~ctxDone
    /\ ctxDone' = TRUE
    /\ UNCHANGED <<payPc, retry, posts, gets, sleeps, lastStatus, attemptErr,
                   result, gwRecords, newRecords, rideCount>>
    /\ UNCHANGED matchVars

requestPaymentGatewayPostPayment ==
    \/ PostPayment
    \/ verifyPayments
    \/ Backoff

\* ====================================================================
\* Specifications
\* ====================================================================

vars == <<matchVars, payVars>>

\* Concurrent matching invocations, storage errors included.
MatchNext ==
    \/ \E p \in Procs : internalGetMatching(p)
    \/ \E p \in Procs : StorageError(p)

Init == MatchInit /\ PayOff

Spec == Init /\ [][MatchNext]_vars

\* Matching invocations with a store that does not fail; the server keeps
\* running some invocation that can take a step.
LiveNext == \E p \in Procs : internalGetMatching(p)

LiveSpec ==
    /\ Init
    /\ [][LiveNext]_vars
    /\ WF_vars(LiveNext)

\* One settlement call against an arbitrary gateway.
PayNext ==
    \/ requestPaymentGatewayPostPayment
    \/ CtxCancel

PayCall == MatchOff /\ PayInit

PaySpec == PayCall /\ [][PayNext]_vars

\* The call runs on: every client.Do and every time.Sleep returns.
PayLiveSpec ==
    /\ PayCall
    /\ [][PayNext]_vars
    /\ WF_vars(requestPaymentGatewayPostPayment)

\* ====================================================================
\* Properties
\* ====================================================================

Radii == { k * stepDistance : k \in 1..(maxDistance \div stepDistance) }

Abs(x) == IF x < 0 THEN -x ELSE x

\* pt is inside the square of half-width d around center, borders included.
Within(pt, center, d) ==
    /\ Abs(pt.lat - center.lat) <= d
    /\ Abs(pt.lng - center.lng) <= d

Eligible(c) == isActive[c] /\ ~inUse[c]

\* The last known location of a chair: its most recent sample.
LastLocation(c) == chairLocations[c][Len(chairLocations[c])]

\* An eligible chair is located inside the box of radius d around ride r.
EligibleUnitIn(r, d) ==
    \E c \in Chairs : Eligible(c) /\ Within(LastLocation(c), pickup[r], d)

\* The location rows of eligible chairs inside the box of radius d around
\* ride r: the candidates of one search step.
CandidateRows(r, d) ==
    { ci \in Chairs \X (1..MaxSamples) :
        /\ ci[2] \in DOMAIN chairLocations[ci[1]]
        /\ Eligible(ci[1])
        /\ Within(chairLocations[ci[1]][ci[2]], pickup[r], d) }

RowDistance(r, ci) ==
    (chairLocations[ci[1]][ci[2]].lat - pickup[r].lat)
      * (chairLocations[ci[1]][ci[2]].lat - pickup[r].lat)
    + (chairLocations[ci[1]][ci[2]].lng - pickup[r].lng)
      * (chairLocations[ci[1]][ci[2]].lng - pickup[r].lng)

HasFound(p) == pc[p] \in {"updateRide", "updateChair", "commit"}

\* C1: with any number of concurrent matching invocations, every committed
\* state gives a ride at most one chair (NULL or one chair id) and no chair
\* is the assigned chair of two rides.
ExclusiveAssignment ==
    /\ \A r \in Rides : rideChair[r] \in Chairs \cup {NULL}
    /\ \A r1, r2 \in Rides :
         (r1 # r2 /\ rideChair[r1] # NULL) => rideChair[r1] # rideChair[r2]

\* C1 witness: two invocations overlap (one about to commit its match, the
\* other waiting in its ride selection) after an earlier match was committed.
ExclusiveAssignmentWitness ==
    \E p, q \in Procs :
        /\ p # q
        /\ pc[p] = "commit"
        /\ pc[q] = "select"
        /\ \E r \in Rides : rideChair[r] # NULL

\* C2: two invocations whose transactions overlap never both hold the same
\* ride as their selected candidate, and an invocation holds the exclusive
\* lock of its selected ride for as long as its transaction is open.
NoSharedCandidate ==
    /\ \A p, q \in Procs : (p # q /\ ride[p] # NULL) => ride[p] # ride[q]
    /\ \A p \in Procs : ride[p] # NULL => rideLock[ride[p]] = p

\* C2 witness: one invocation holds a selected ride while another
\* invocation's transaction is open at its ride selection.
NoSharedCandidateWitness ==
    \E p, q \in Procs :
        /\ p # q
        /\ ride[p] # NULL /\ rideLock[ride[p]] = p
        /\ pc[q] = "select"

\* C3: in every committed state a chair's in-use flag is set if and only if
\* the chair is the assigned chair of some ride.
AtomicAssignment ==
    \A c \in Chairs : inUse[c] <=> (\E r \in Rides : rideChair[r] = c)

\* C3 witness: a match has been committed.
AtomicAssignmentWitness ==
    \E r \in Rides : rideChair[r] # NULL /\ inUse[rideChair[r]]

\* C4: a ride's assigned chair, once set, never changes again, and a ride
\* that an invocation selects has no assigned chair.
AssignedOnce ==
    [][ /\ \A r \in Rides : rideChair[r] # NULL => rideChair'[r] = rideChair[r]
        /\ \A p \in Procs :
             (ride'[p] # NULL /\ ride'[p] # ride[p]) => rideChair[ride'[p]] = NULL
      ]_vars

\* C4 witness: an invocation has selected a ride after another ride was
\* assigned.
AssignedOnceWitness ==
    \E p \in Procs :
        /\ ride[p] # NULL
        /\ \E r \in Rides : rideChair[r] # NULL

\* C5: the ride an invocation selects is unmatched and no unmatched ride was
\* created earlier; when no ride is unmatched the invocation ends as
\* no-ride-available, never selects, and changes neither table.
OldestRideFirst ==
    [][ \A p \in Procs :
          pc[p] = "select" /\ pc'[p] # "select" =>
             IF \E r \in Rides : rideChair[r] = NULL
               THEN \/ pc'[p] = "idle" /\ response' = StatusInternalServerError
                    \/ /\ pc'[p] = "search"
                       /\ rideChair[ride'[p]] = NULL
                       /\ \A o \in Rides :
                            rideChair[o] = NULL =>
                               createdAt[ride'[p]] <= createdAt[o]
               ELSE /\ pc'[p] = "idle"
                    /\ response' \in {StatusNoContent, StatusInternalServerError}
                    /\ ride'[p] = NULL
                    /\ UNCHANGED <<rideChair, inUse>>
      ]_vars

\* C5 witness: an invocation has selected a ride while a ride created later
\* is still unmatched.
OldestRideFirstWitness ==
    \E p \in Procs :
        /\ pc[p] = "search"
        /\ \E o \in Rides :
             rideChair[o] = NULL /\ createdAt[o] > createdAt[ride[p]]

\* C6: the search tries the radii step, 2*step, ... up to and including the
\* maximum; the chair it returns is located in the box of the radius it
\* stopped at, no smaller radius holds an eligible chair, and it returns
\* not-found only when no radius up to the maximum holds one.
ExpandingSearchOrder ==
    [][ \A p \in Procs :
          \* the first radius is step
          /\ (pc[p] = "select" /\ pc'[p] = "search") =>
                currentDistance'[p] = stepDistance
          \* a radius is left behind only when its box holds no eligible chair
          /\ (pc[p] = "search" /\ pc'[p] = "sleep") =>
                /\ ~EligibleUnitIn(ride[p], currentDistance[p])
                /\ currentDistance'[p] = currentDistance[p] + stepDistance
          \* the next radius is searched while it does not exceed the maximum
          /\ pc[p] = "sleep" =>
                IF currentDistance[p] <= maxDistance
                  THEN pc'[p] \in {"sleep", "search"}
                  ELSE pc'[p] \in {"sleep", "idle"}
          /\ (pc[p] = "sleep" /\ pc'[p] = "search") =>
                currentDistance'[p] = currentDistance[p]
          \* a chair is returned from the first radius that holds one
          /\ (pc[p] = "search" /\ pc'[p] = "updateRide") =>
                /\ currentDistance'[p] = currentDistance[p]
                /\ currentDistance[p] \in Radii
                /\ Eligible(chair'[p].ID)
                /\ Within(LastLocation(chair'[p].ID), pickup[ride[p]],
                          currentDistance[p])
                /\ \A d \in Radii :
                     d < currentDistance[p] => ~EligibleUnitIn(ride[p], d)
          \* not-found only when every radius is empty
          /\ (pc[p] = "sleep" /\ pc'[p] = "idle") =>
                /\ response' = StatusNoContent
                /\ \A d \in Radii : ~EligibleUnitIn(ride[p], d)
      ]_vars

NoUnitNoWrites ==
    [][ \A p \in Procs :
          (ride[p] # NULL /\ \A d \in Radii : ~EligibleUnitIn(ride[p], d)) =>
             /\ ~HasFound(p)'
             /\ UNCHANGED <<rideChair, inUse>>
             /\ pc'[p] = "idle" =>
                  response' \in {StatusNoContent, StatusInternalServerError}
      ]_vars

\* C9: from a state with exactly one unmatched ride and exactly one eligible
\* chair, located outside the first box and inside the largest, the ride is
\* eventually assigned that chair and the chair is in use: such a state
\* lasts until the ride is assigned, the step that assigns the ride assigns
\* it that chair and sets the chair in use, and the ride is eventually
\* assigned.
OneRideOneUnit(r, c) ==
    /\ rideChair[r] = NULL
    /\ \A o \in Rides \ {r} : rideChair[o] # NULL
    /\ Eligible(c)
    /\ \A o \in Chairs \ {c} : ~Eligible(o)
    /\ ~Within(LastLocation(c), pickup[r], stepDistance)
    /\ Within(LastLocation(c), pickup[r], maxDistance)

EventuallyMatched ==
    /\ [][ \A r \in Rides, c \in Chairs :
             OneRideOneUnit(r, c) =>
                \/ OneRideOneUnit(r, c)'
                \/ rideChair'[r] = c /\ inUse'[c]
         ]_vars
    /\ (\E r \in Rides, c \in Chairs : OneRideOneUnit(r, c))
          ~> (\A r \in Rides : rideChair[r] # NULL)

\* C9 witness: in such a state an invocation that found the chair beyond the
\* first ring is about to commit the match.
EventuallyMatchedWitness ==
    \E p \in Procs, r \in Rides, c \in Chairs :
        /\ OneRideOneUnit(r, c)
        /\ pc[p] = "commit"
        /\ ride[p] = r
        /\ chair[p].ID = c
        /\ currentDistance[p] > stepDistance

\* C10: when the gateway answers the first POST /payments with no-content,
\* the call has returned success with that one request and no GET.
AcceptedFirstSubmission ==
    (posts = 1 /\ lastStatus = StatusNoContent) =>
        /\ payPc = "done"
        /\ result = ReturnedNil
        /\ gets = 0
        /\ sleeps = 0

\* C10 witness: a call whose first submission was accepted.
AcceptedFirstSubmissionWitness ==
    /\ payPc = "done"
    /\ posts = 1
    /\ lastStatus = StatusNoContent
    /\ result = ReturnedNil

\* The latest verifyPayments fetched both lists: it returned nil or the
\* mismatch of their lengths.
ListsCompared == attemptErr \in {"nil", "mismatch"}

\* C11: when the first POST /payments is answered with a failure status and
\* the verifyPayments that follows it finds as many gateway records as rides
\* in the caller's listing, the call has returned success, and it issued that
\* one POST only (no backoff, no second POST, then or later).
ReconciledFirstSubmission ==
    /\ []( ( /\ posts = 1 /\ gets = 1 /\ payPc # "verify"
             /\ ListsCompared
             /\ gwRecords = rideCount ) =>
                 /\ payPc = "done"
                 /\ result = ReturnedNil
                 /\ sleeps = 0 )
    /\ [][ payPc = "done" => posts' = posts ]_vars

\* C11 witness: the first POST was answered 500 or 200, the reconciliation
\* found equal counts, and the call returned nil after one POST and one GET.
ReconciledFirstSubmissionWitness ==
    /\ payPc = "done"
    /\ result = ReturnedNil
    /\ posts = 1
    /\ gets = 1
    /\ lastStatus \in {StatusOK, StatusInternalServerError}
    /\ gwRecords = rideCount

TerminalError == <<"maximum retry limit reached", attemptErr>>

\* C12: the call terminates; it returns nil only when its last attempt had
\* no error, so a call whose attempts all fail returns the terminal error,
\* which wraps the error of the last attempt and is returned after exactly
\* maxRetry + 1 POST /payments (and maxRetry sleeps); no call issues more.
RetryBudgetExhausted ==
    /\ <>(payPc = "done")
    /\ [](posts <= maxRetry + 1)
    /\ [](payPc = "done" =>
            \/ result = ReturnedNil /\ attemptErr = "nil"
            \/ /\ attemptErr # "nil"
               /\ result = TerminalError
               /\ posts = maxRetry + 1
               /\ sleeps = maxRetry)

\* C12 witness: the terminal error after attempts that failed in both ways,
\* in client.Do and in the reconciliation.
RetryBudgetExhaustedWitness ==
    /\ payPc = "done"
    /\ result = TerminalError
    /\ posts = maxRetry + 1
    /\ gets > 0
    /\ gets < posts

\* C13: every failed attempt, whether client.Do failed or the status was not
\* no-content, is followed by exactly one GET /payments before the backoff
\* (or the terminal error): whenever the call is backing off or has returned
\* an error, it has issued as many GETs as POSTs.
ReconcileEveryFailure ==
    (payPc = "backoff" \/ (payPc = "done" /\ result # ReturnedNil)) =>
        gets = posts

\* C14: once a POST or GET of the call has ended with the context's error
\* (the context was cancelled or timed out during it), the call sleeps no
\* more and issues no further POST or GET.
CancelStopsRetry ==
    [][ (ctxDone /\ attemptErr = "context") =>
            /\ sleeps' = sleeps
            /\ posts' = posts
            /\ gets' = gets
      ]_vars

\* C15: an invocation that has found a chair ends in one of two ways.  Either
\* its commit succeeded, or one of UPDATE rides, UPDATE chairs and COMMIT
\* failed: then it answers 500, neither table changes, the ride it selected
\* still has no chair and the chair it found is still free, and the ride's
\* lock is released, so that a later invocation can select the ride.
FailureLeavesUnmatched ==
    [][ \A p \in Procs :
          (HasFound(p) /\ pc'[p] = "idle") =>
             \/ /\ pc[p] = "commit"
                /\ response' = StatusNoContent
                /\ rideChair'[ride[p]] = chair[p].ID
                /\ inUse'[chair[p].ID]
             \/ /\ response' = StatusInternalServerError
                /\ UNCHANGED <<rideChair, inUse>>
                /\ rideChair'[ride[p]] = NULL
                /\ ~inUse'[chair[p].ID]
                /\ rideLock'[ride[p]] = NULL
                /\ chairLock'[chair[p].ID] # p
                /\ ride[p] \in Unmatched'
      ]_vars

\* C15 witness: the commit (or the second write) of an invocation failed
\* after both of its writes, which were rolled back: the answer is 500, the
\* ride is unmatched and unlocked and the chair is free.
FailureLeavesUnmatchedWitness ==
    /\ response = StatusInternalServerError
    /\ \E r \in Rides, c \in Chairs :
         /\ rolledBack = [rides |-> {<<r, c>>}, chairs |-> {c}]
         /\ rideChair[r] = NULL
         /\ rideLock[r] = NULL
         /\ ~inUse[c]

\* C16: an invocation that pauses between two radius-expansion steps holds
\* no ride's row lock during the pause.
NoLockAcrossSleep ==
    \A p \in Procs : pc[p] = "sleep" => \A r \in Rides : rideLock[r] # p

\* C17: the chair an invocation has found stays eligible (active, and free in
\* the committed state) up to its commit, and the step that assigns a chair
\* to a ride assigns an active chair whose in-use flag was false before the
\* step and is true after it.
AssignsEligibleOnly ==
    /\ [](\A p \in Procs : HasFound(p) => Eligible(chair[p].ID))
    /\ [][ \A r \in Rides :
             (rideChair[r] = NULL /\ rideChair'[r] # NULL) =>
                /\ isActive[rideChair'[r]]
                /\ ~inUse[rideChair'[r]]
                /\ inUse'[rideChair'[r]]
         ]_vars

\* C17 witness: a ride has been assigned a chair although a chair that is
\* not eligible (inactive, or in use by then) has a location row nearer to
\* the ride's pickup point.
AssignsEligibleOnlyWitness ==
    \E r \in Rides, c \in Chairs, i \in 1..MaxSamples :
        /\ rideChair[r] # NULL
        /\ c # rideChair[r]
        /\ i \in DOMAIN chairLocations[c]
        /\ ~isActive[c]
        /\ RowDistance(r, <<c, i>>) <
              RowDistance(r, <<rideChair[r], Len(chairLocations[rideChair[r]])>>)

\* C18: the chair a search step returns has its most recent location sample
\* inside the box of that step, and the coordinates and the distance it is
\* returned with are those of that most recent sample.
LatestSampleOnly ==
    \A p \in Procs :
        HasFound(p) =>
           LET last == LastLocation(chair[p].ID) IN
             /\ Within(last, pickup[ride[p]], currentDistance[p])
             /\ Point(chair[p].Latitude, chair[p].Longitude) = last
             /\ chair[p].Distance =
                   RowDistance(ride[p], <<chair[p].ID, Len(chairLocations[chair[p].ID])>>)

\* An unmatched ride older than r that has no eligible chair in the largest box.
StarvedOlderRide(r) ==
    \E o \in Rides :
        /\ rideChair[o] = NULL
        /\ createdAt[o] < createdAt[r]
        /\ ~EligibleUnitIn(o, maxDistance)

\* C19: while an unmatched ride has no eligible chair within the maximum
\* radius, no invocation selects a ride created after it and no ride created
\* after it is assigned a chair.
HeadOfLineBlocking ==
    [][ /\ \A r \in Rides :
             (rideChair[r] = NULL /\ rideChair'[r] # NULL) => ~StarvedOlderRide(r)
        /\ \A p \in Procs :
             (ride'[p] # NULL /\ ride'[p] # ride[p]) => ~StarvedOlderRide(ride'[p])
      ]_vars

\* C19 witness: an invocation has answered no-content after searching in vain
\* for the oldest ride, while a younger unmatched ride has an eligible chair
\* in range and stays unmatched.
HeadOfLineBlockingWitness ==
    /\ response = StatusNoContent
    /\ \E r \in Rides :
         /\ rideChair[r] = NULL
         /\ EligibleUnitIn(r, maxDistance)
         /\ StarvedOlderRide(r)

\* C20 as claimed: the POSTs of one call create at most one settlement record.
AtMostOneRecord == newRecords <= 1

\* C20 as amended: the POSTs of one call create at most one settlement record
\* each, and there are at most maxRetry + 1 of them; a POST answered with
\* no-content is the call's last.
AtMostOneRecordPerAttempt ==
    /\ newRecords <= posts
    /\ posts <= maxRetry + 1
    /\ (posts > 0 /\ lastStatus = StatusNoContent) =>
          (payPc = "done" /\ result = ReturnedNil)

\* C20 witness: the call has returned after POSTs that created two or more
\* records, the last of them acknowledged with no-content.
AtMostOneRecordPerAttemptWitness ==
    /\ payPc = "done"
    /\ result = ReturnedNil
    /\ lastStatus = StatusNoContent
    /\ newRecords >= 2

====
